---------------------------- MODULE Spec2Model ----------------------------
(***************************************************************************)
(* A model of rbclib (src/rbclib/__init__.py): RBCClient and RBCPath, the  *)
(* read-only cloud path over the RBC dataset.                              *)
(*                                                                         *)
(* Strings and bytes are sequences of characters (one-character strings).  *)
(* The constant parts of the f-strings that build URLs are single tokens;  *)
(* the parts that come from the path are kept character by character.      *)
(* An exception is the name of its Python class; "None" is no exception.   *)
(***************************************************************************)
EXTENDS Integers, Sequences, FiniteSets, TLC

VARIABLES github_path, stat_cache, now, dest, last

vars == <<github_path, stat_cache, now, dest, last>>

\* time.time() is read as `now`; the clock is capped at MaxTime.
MaxTime == 1

-----------------------------------------------------------------------------
(* Strings *)

RECURSIVE LStrip(_, _)
\* str.lstrip(ch)
LStrip(s, ch) ==
  IF s # <<>> /\ Head(s) = ch THEN LStrip(Tail(s), ch) ELSE s

StartsWith(s, pre) ==
  Len(s) >= Len(pre) /\ SubSeq(s, 1, Len(pre)) = pre

\* bytes.__contains__ / `sub in s`
Contains(s, sub) ==
  \E i \in 1..(Len(s) - Len(sub) + 1) : SubSeq(s, i, i + Len(sub) - 1) = sub

RECURSIVE SplitAcc(_, _, _)
SplitAcc(s, sep, cur) ==
  IF s = <<>> THEN <<cur>>
  ELSE IF Head(s) = sep THEN <<cur>> \o SplitAcc(Tail(s), sep, <<>>)
  ELSE SplitAcc(Tail(s), sep, Append(cur, Head(s)))

\* str.split(sep): always at least one piece, empty pieces kept
Split(s, sep) == SplitAcc(s, sep, <<>>)

RECURSIVE Join(_, _)
\* sep.join(parts)
Join(parts, sep) ==
  IF parts = <<>> THEN <<>>
  ELSE IF Len(parts) = 1 THEN parts[1]
  ELSE parts[1] \o <<sep>> \o Join(Tail(parts), sep)

IsRealPart(c) == c # <<>> /\ c # <<".">>

\* PurePosixPath(s).parts for an s with no leading "/": the "/"-separated
\* pieces without the empty ones and the "." ones
PurePosixParts(s) == SelectSeq(Split(s, "/"), IsRealPart)

\* bytes.decode('utf-8'): the byte "xFF" is no UTF-8
Decode(dat) ==
  IF \E i \in 1..Len(dat) : dat[i] = "xFF"
  THEN [err |-> "UnicodeDecodeError", str |-> <<>>]
  ELSE [err |-> "None", str |-> dat]

-----------------------------------------------------------------------------
(* The paths and the world they are resolved in *)

rbc == <<"r", "b", "c", ":", "/", "/">>
RBC == <<"R", "B", "C", ":", "/", "/">>
Rbc == <<"R", "b", "c", ":", "/", "/">>

pDir   == rbc \o <<"r", "/", "d">>
pAnnex == rbc \o <<"r", "/", "d", "/", "a">>
pLit   == rbc \o <<"r", "/", "d", "/", "b">>
pFile  == rbc \o <<"r", "/", "n">>
pMixed == Rbc \o <<"r", "/", "d", "/", "a">>
pUpper == RBC \o <<"r", "/", "d", "/", "a">>
pRoot  == rbc \o <<"r">>
pSlash == rbc \o <<"/", "r", "/", "/", "d", "/", ".", "/", "a">>
pBare  == <<"r", "/", "d">>
pEmpty == rbc

\* The RBCPath objects the operations are called on
Paths == {pDir, pAnnex, pLit, pFile, pMixed}

\* The strings _path_split_repo is applied to
ParseInputs == Paths \cup {pUpper, pRoot, pSlash, pBare, pEmpty}

AnnexMarker ==
  <<"/", ".", "g", "i", "t", "/", "a", "n", "n", "e", "x", "/",
    "o", "b", "j", "e", "c", "t", "s", "/">>

\* the link target of r/d/a, an annexed file with content key "k"
AnnexTarget == <<".", ".">> \o AnnexMarker \o <<"x", "/", "k", "/", "k">>
\* r/d/b is not annexed: its bytes are its content, an empty JSON object
LitBytes == <<"{", "}">>
\* r/n is a file of the checkout that the repository does not have
NewBytes == <<"n", "e", "w">>

NoPath == <<>>
MirrorRoot == <<"/", "m">>

-----------------------------------------------------------------------------
(* The local mirror: the filesystem under github_path *)

Missing == [kind |-> "missing", target |-> <<>>, children |-> <<>>]

\* What lies at a local path: a directory with its children's names in
\* iterdir() order, a regular file, a symbolic link with its target (the
\* annexed objects themselves are not in the checkout), or nothing.
FsNode(locpath) ==
  CASE locpath = MirrorRoot \o <<"/", "r">> ->
         [kind |-> "dir", target |-> <<>>, children |-> <<<<"d">>, <<"n">>>>]
    [] locpath = MirrorRoot \o <<"/", "r", "/", "d">> ->
         [kind |-> "dir", target |-> <<>>, children |-> <<<<"a">>, <<"b">>>>]
    [] locpath = MirrorRoot \o <<"/", "r", "/", "d", "/", "a">> ->
         [kind |-> "symlink", target |-> AnnexTarget, children |-> <<>>]
    [] locpath = MirrorRoot \o <<"/", "r", "/", "d", "/", "b">> ->
         [kind |-> "symlink", target |-> LitBytes, children |-> <<>>]
    [] locpath = MirrorRoot \o <<"/", "r", "/", "n">> ->
         [kind |-> "file", target |-> <<>>, children |-> <<>>]
    [] OTHER -> Missing

\* Path.is_dir() and Path.is_file() follow links, and every link of the
\* mirror points at an object that is not there; Path.lstat() and
\* Path.readlink() do not follow them
NodeIsDir(node) == node.kind = "dir"
NodeIsFile(node) == node.kind = "file"

\* github_path / repo / tail
LocPath(gp, repo, tail) ==
  gp \o <<"/">> \o repo \o (IF tail = <<>> THEN <<>> ELSE <<"/">> \o tail)

\* an entry of iterdir(): locpath / name
ChildPath(locpath, name) == locpath \o <<"/">> \o name

-----------------------------------------------------------------------------
(* RBCClient: the static helpers *)

\* lines 35-36
StripScheme(path) ==
  IF StartsWith(path, rbc) \/ StartsWith(path, RBC)
  THEN SubSeq(path, 7, Len(path)) ELSE path

\* lines 39-41: parts[0] of no parts is an IndexError
RepoAndTail(parts) ==
  IF parts = <<>>
  THEN [err |-> "IndexError", repo |-> <<>>, tail |-> <<>>]
  ELSE [err |-> "None", repo |-> parts[1], tail |-> Join(Tail(parts), "/")]

PathSplitRepo(path) ==
  RepoAndTail(PurePosixParts(LStrip(StripScheme(path), "/")))

GithubUrl(sp) ==
  <<"https://raw.githubusercontent.com/ReproBrainChart/">> \o sp.repo
    \o <<"/refs/heads/main/">> \o sp.tail

GithubPath(path) == GithubUrl(PathSplitRepo(path))

GithubApiUrl(sp) ==
  <<"https://api.github.com/repos/ReproBrainChart/">> \o sp.repo
    \o <<"/contents/">> \o sp.tail

GithubApiPath(path) == GithubApiUrl(PathSplitRepo(path))

\* the raw-content URLs of r/d/a and r/d/b
AnnexUrl == GithubPath(pAnnex)
LitUrl == GithubPath(pLit)

\* urllib.request.urlopen(url).read() against the dataset's repository:
\* the raw host serves a file's content, and a link's target for a link;
\* every other URL of the raw host (a directory, a missing file, another
\* repository) is a 404. No request of the client goes to the api host.
UrlSlurp(url) ==
  CASE url = AnnexUrl -> [err |-> "None", body |-> AnnexTarget]
    [] url = LitUrl   -> [err |-> "None", body |-> LitBytes]
    [] OTHER -> [err |-> "HTTPError", body |-> <<>>]

NoJson == [tag |-> "none", items |-> <<>>]

\* json.loads on the bodies above: an array, an object, or no JSON at all
JsonLoads(dat) ==
  IF dat # <<>> /\ Head(dat) = "[" /\ dat[Len(dat)] = "]"
  THEN [err |-> "None", json |-> [tag |-> "list", items |-> <<>>]]
  ELSE IF dat # <<>> /\ Head(dat) = "{" /\ dat[Len(dat)] = "}"
  THEN [err |-> "None", json |-> [tag |-> "dict", items |-> <<>>]]
  ELSE [err |-> "JSONDecodeError", json |-> NoJson]

-----------------------------------------------------------------------------
(* The object store behind self._s3client *)

S3Prefix == <<"s3://fcp-indi/", "data/Projects/RBC/">>

\* S3Path.key: the path after the bucket
S3Key(s3path) == Tail(s3path)

S3Object(s3path) ==
  CASE s3path = S3Prefix \o <<"r", "/", "k">> ->
         [found |-> TRUE, bytes |-> <<"D", "A", "T", "A">>, mtime |-> 0]
    [] s3path = S3Prefix \o <<"r", "/", "n">> ->
         [found |-> TRUE, bytes |-> NewBytes, mtime |-> 0]
    [] OTHER -> [found |-> FALSE, bytes |-> <<>>, mtime |-> 0]

NoneStat == [tag |-> "None", st_dev |-> "", st_size |-> 0, st_mtime |-> 0]

StatOfObject(o) ==
  IF o.found
  THEN [err |-> "None",
        stat |-> [tag |-> "stat", st_dev |-> "s3://",
                  st_size |-> Len(o.bytes), st_mtime |-> o.mtime]]
  ELSE [err |-> "NoStatError", stat |-> NoneStat]

\* S3Path.stat()
S3Stat(s3path) == StatOfObject(S3Object(s3path))

S3Exists(s3path) == S3Object(s3path).found

S3PublicUrl(s3path) == <<"https://fcp-indi.s3.amazonaws.com/">> \o S3Key(s3path)

S3PresignedUrl(s3path) == S3PublicUrl(s3path) \o <<"?X-Amz-Signature">>

-----------------------------------------------------------------------------
(* RBCClient._get_github_json *)

\* err: the exception; json: the value returned; net: the URLs requested;
\* fs: the number of filesystem calls
NoQuery == [err |-> "None", json |-> NoJson, net |-> <<>>, fs |-> 0]

\* lines 58-66, with the node at locpath
LocalJson(locpath, node) ==
  IF NodeIsDir(node)
  THEN [NoQuery EXCEPT
          !.json = [tag |-> "list",
                    items |-> [i \in 1..Len(node.children) |->
                                 ChildPath(locpath, node.children[i])]],
          !.fs = 2]
  ELSE IF node.kind = "missing"
  THEN [NoQuery EXCEPT !.err = "FileNotFoundError", !.fs = 2]
  ELSE [NoQuery EXCEPT !.json = [tag |-> "dict", items |-> <<locpath>>],
                       !.fs = 2]

\* line 69
ParsedJson(url, j) ==
  [NoQuery EXCEPT !.err = j.err, !.json = j.json, !.net = <<url>>]

\* lines 68-69, with the response to the request of line 68
RemoteJson(url, r) ==
  IF r.err # "None"
  THEN [NoQuery EXCEPT !.err = r.err, !.net = <<url>>]
  ELSE ParsedJson(url, JsonLoads(r.body))

LocalJsonAt(locpath) == LocalJson(locpath, FsNode(locpath))

RemoteJsonAt(url) == RemoteJson(url, UrlSlurp(url))

GithubJsonOf(gp, sp) ==
  IF sp.err # "None" THEN [NoQuery EXCEPT !.err = sp.err]
  ELSE IF gp # NoPath THEN LocalJsonAt(LocPath(gp, sp.repo, sp.tail))
  ELSE RemoteJsonAt(GithubUrl(sp))

GetGithubJson(gp, path) == GithubJsonOf(gp, PathSplitRepo(path))

-----------------------------------------------------------------------------
(* RBCClient._get_s3_path and to_s3 *)

\* err: the exception (RBCFileException carries url and contents);
\* s3path: the string returned; dat, got: the bytes obtained, if any were
NoLoc ==
  [err |-> "None", s3path |-> <<>>, url |-> <<>>, contents |-> <<>>,
   dat |-> <<>>, got |-> FALSE, net |-> <<>>, fs |-> 0]

Obtained(dat, net, fs) ==
  [NoLoc EXCEPT !.dat = dat, !.got = TRUE, !.net = net, !.fs = fs]

LastOf(pieces) == pieces[Len(pieces)]

\* lines 87-88, with the decoded bytes
AnnexedLoc(sp, r, d) ==
  IF d.err # "None" THEN [r EXCEPT !.err = d.err]
  ELSE [r EXCEPT !.s3path = S3Prefix \o sp.repo \o <<"/">>
                              \o LastOf(Split(d.str, "/"))]

\* lines 85-88: ghpath is bound only when the bytes came from the raw host
FromBytes(sp, dat, ghbound, ghpath, r) ==
  IF ~Contains(dat, AnnexMarker)
  THEN IF ghbound
       THEN [r EXCEPT !.err = "RBCFileException",
                      !.url = ghpath, !.contents = dat]
       ELSE [r EXCEPT !.err = "UnboundLocalError"]
  ELSE AnnexedLoc(sp, r, Decode(dat))

\* lines 75-81, with the node at localpath
LocalS3Path(sp, node) ==
  IF NodeIsDir(node) \/ NodeIsFile(node)
  THEN [NoLoc EXCEPT !.s3path = S3Prefix \o sp.repo \o <<"/">> \o sp.tail,
                     !.fs = IF NodeIsDir(node) THEN 1 ELSE 2]
  ELSE IF node.kind # "symlink"
  THEN [NoLoc EXCEPT !.err = "FileNotFoundError", !.fs = 3]
  ELSE FromBytes(sp, node.target, FALSE, <<>>, Obtained(node.target, <<>>, 3))

\* lines 83-84, with the response to the request of line 84
RemoteS3Path(sp, ghpath, r) ==
  IF r.err # "None"
  THEN [NoLoc EXCEPT !.err = r.err, !.net = <<ghpath>>]
  ELSE FromBytes(sp, r.body, TRUE, ghpath, Obtained(r.body, <<ghpath>>, 0))

RemoteS3PathAt(sp, ghpath) == RemoteS3Path(sp, ghpath, UrlSlurp(ghpath))

S3PathOf(gp, sp) ==
  IF sp.err # "None" THEN [NoLoc EXCEPT !.err = sp.err]
  ELSE IF gp # NoPath
  THEN LocalS3Path(sp, FsNode(LocPath(gp, sp.repo, sp.tail)))
  ELSE RemoteS3PathAt(sp, GithubUrl(sp))

GetS3Path(gp, path) == S3PathOf(gp, PathSplitRepo(path))

\* to_s3: the S3Path of _get_s3_path's string, or its exception
ToS3(gp, path) == GetS3Path(gp, path)

-----------------------------------------------------------------------------
(* What a call gave: `last` *)

\* op and path: the call. err: the exception that reached the caller.
\* bool, str, list, stat: the value returned, by type (str also holds a
\* repository, a URL, a key, a kind; for to_s3, str and list also hold the
\* url and the contents of an RBCFileException). dat, got: the bytes _get_s3_path
\* obtained, if it obtained any. json: the shape _get_github_json returned.
\* net: the URLs requested. fs: the number of filesystem calls.
\* cached: stat() found self._stat set.
Blank(op, path) ==
  [op |-> op, path |-> path, recursive |-> FALSE, err |-> "None",
   bool |-> FALSE, str |-> <<>>, list |-> <<>>, stat |-> NoneStat,
   dat |-> <<>>, got |-> FALSE, json |-> "none", net |-> <<>>, fs |-> 0,
   cached |-> FALSE]

\* the part of a resolution every caller of to_s3 passes on
Resolved(op, path, r) ==
  [Blank(op, path) EXCEPT !.dat = r.dat, !.got = r.got, !.net = r.net,
                          !.fs = r.fs]

Queried(op, path, j) ==
  [Blank(op, path) EXCEPT !.json = j.json.tag, !.net = j.net, !.fs = j.fs]

\* the call raises what the resolution raised
Raised(b, r) == [b EXCEPT !.err = r.err]

-----------------------------------------------------------------------------
(* RBCClient and RBCPath: the operations *)

SplitRepoResult(path, sp) ==
  [Blank("_path_split_repo", path) EXCEPT
     !.err = sp.err, !.str = sp.repo, !.list = <<sp.tail>>]

SplitRepoCall(path) == SplitRepoResult(path, PathSplitRepo(path))

\* the S3 path returned, or the RBCFileException with its url and contents
ToS3Result(path, r) ==
  IF r.err = "RBCFileException"
  THEN [Resolved("to_s3", path, r) EXCEPT
          !.err = r.err, !.str = r.url, !.list = <<r.contents>>]
  ELSE [Resolved("to_s3", path, r) EXCEPT !.err = r.err, !.str = r.s3path]

\* RBCClient.to_s3 and RBCPath.s3path
ToS3Call(gp, path) == ToS3Result(path, ToS3(gp, path))

ExistsResult(b, r) ==
  IF r.err = "RBCFileException" THEN [b EXCEPT !.bool = TRUE]
  ELSE IF r.err # "None" THEN Raised(b, r)
  ELSE [b EXCEPT !.bool = S3Exists(r.s3path)]

ExistsOf(path, r) == ExistsResult(Resolved("_exists", path, r), r)

ExistsCall(gp, path) == ExistsOf(path, ToS3(gp, path))

PublicUrlResult(b, r) ==
  IF r.err = "RBCFileException" THEN [b EXCEPT !.str = r.url]
  ELSE IF r.err # "None" THEN Raised(b, r)
  ELSE [b EXCEPT !.str = S3PublicUrl(r.s3path)]

PublicUrlOf(path, r) ==
  PublicUrlResult(Resolved("_get_public_url", path, r), r)

PublicUrlCall(gp, path) == PublicUrlOf(path, ToS3(gp, path))

PresignedUrlResult(b, r) ==
  IF r.err = "RBCFileException" THEN [b EXCEPT !.str = r.url]
  ELSE IF r.err # "None" THEN Raised(b, r)
  ELSE [b EXCEPT !.str = S3PresignedUrl(r.s3path)]

PresignedUrlOf(path, r) ==
  PresignedUrlResult(Resolved("_generate_presigned_url", path, r), r)

PresignedUrlCall(gp, path) == PresignedUrlOf(path, ToS3(gp, path))

\* None (here the empty string) for inline content
KeyResult(b, r) ==
  IF r.err = "RBCFileException" THEN b
  ELSE IF r.err # "None" THEN Raised(b, r)
  ELSE [b EXCEPT !.str = S3Key(r.s3path)]

KeyOf(path, r) == KeyResult(Resolved("key", path, r), r)

\* RBCPath.key
KeyCall(gp, path) == KeyOf(path, ToS3(gp, path))

PathKindResult(b, j) ==
  IF j.err # "None" THEN Raised(b, j)
  ELSE IF j.json.tag # "list" THEN [b EXCEPT !.str = <<"directory">>]
  ELSE [b EXCEPT !.str = <<"file">>]

PathKindOf(path, j) == PathKindResult(Queried("_path_kind", path, j), j)

PathKindCall(gp, path) == PathKindOf(path, GetGithubJson(gp, path))

IsDirResult(b, j) ==
  IF j.err # "None" THEN Raised(b, j)
  ELSE [b EXCEPT !.bool = (j.json.tag = "list")]

IsDirOf(path, j) == IsDirResult(Queried("is_dir", path, j), j)

IsDirCall(gp, path) == IsDirOf(path, GetGithubJson(gp, path))

IsFileResult(b, j) ==
  IF j.err # "None" THEN Raised(b, j)
  ELSE [b EXCEPT !.bool = (j.json.tag = "dict")]

IsFileOf(path, j) == IsFileResult(Queried("is_file", path, j), j)

IsFileCall(gp, path) == IsFileOf(path, GetGithubJson(gp, path))

\* lines 157-160: the paths the generator yields
ListDirResult(b, sp, j) ==
  IF j.err # "None" THEN Raised(b, j)
  ELSE IF j.json.tag # "list" THEN [b EXCEPT !.err = "TypeError"]
  ELSE [b EXCEPT !.list = [i \in 1..Len(j.json.items) |->
                             rbc \o sp.repo \o <<"/">> \o j.json.items[i]]]

\* lines 155-160
ListDirOf(path, sp, j) ==
  IF sp.err # "None" THEN [Blank("_list_dir", path) EXCEPT !.err = sp.err]
  ELSE ListDirResult(Queried("_list_dir", path, j), sp, j)

NotImplemented(b) ==
  [b EXCEPT !.recursive = TRUE, !.err = "NotImplementedError"]

\* _list_dir with the query made before the test of `recursive`
ListDirQueryFirst(gp, path, recursive) ==
  IF recursive
  THEN NotImplemented(Queried("_list_dir", path, GetGithubJson(gp, path)))
  ELSE ListDirOf(path, PathSplitRepo(path), GetGithubJson(gp, path))

\* RBCClient._list_dir and RBCPath.iterdir
ListDirCall(gp, path, recursive) ==
  IF recursive THEN NotImplemented(Blank("_list_dir", path))
  ELSE ListDirOf(path, PathSplitRepo(path), GetGithubJson(gp, path))

MoveFileCall(path) == [Blank("_move_file", path) EXCEPT !.err = "RuntimeError"]
RemoveCall(path) == [Blank("_remove", path) EXCEPT !.err = "RuntimeError"]
UploadFileCall(path) == [Blank("_upload_file", path) EXCEPT !.err = "RuntimeError"]
MkdirCall(path) == [Blank("mkdir", path) EXCEPT !.err = "TypeError"]
TouchCall(path) == [Blank("touch", path) EXCEPT !.err = "TypeError"]

\* the result of stat() and the new self._stat
Stored(b, cache, path, st) ==
  [res |-> [b EXCEPT !.stat = st], cache |-> [cache EXCEPT ![path] = st]]

Failed(b, cache, e) == [res |-> Raised(b, e), cache |-> cache]

\* lines 230-234
InlineStat(contents, t) ==
  [tag |-> "stat", st_dev |-> "github://", st_size |-> Len(contents),
   st_mtime |-> t]

\* line 227, with what S3Path.stat() gave
StatOfS3(b, cache, path, s) ==
  IF s.err # "None" THEN Failed(b, cache, s)
  ELSE Stored(b, cache, path, s.stat)

\* lines 226-234, with what self.s3path gave
StatResolve(b, cache, path, t, r) ==
  IF r.err = "RBCFileException"
  THEN Stored(b, cache, path, InlineStat(r.contents, t))
  ELSE IF r.err # "None" THEN Failed(b, cache, r)
  ELSE StatOfS3(b, cache, path, S3Stat(r.s3path))

StatOf(cache, path, t, r) ==
  StatResolve(Resolved("stat", path, r), cache, path, t, r)

\* stat() that resolves on every call
StatNoCache(gp, cache, path, t) == StatOf(cache, path, t, ToS3(gp, path))

\* RBCPath.stat at time t, with self._stat = cache[path]
StatCall(gp, cache, path, t) ==
  IF cache[path] # NoneStat
  THEN [res |-> [Blank("stat", path) EXCEPT
                   !.stat = cache[path], !.cached = TRUE],
        cache |-> cache]
  ELSE StatOf(cache, path, t, ToS3(gp, path))

\* line 142, with the object at s3path
S3Download(b, dst, o) ==
  IF ~o.found
  THEN [res |-> [b EXCEPT !.err = "ClientError"], dest |-> dst]
  ELSE [res |-> b, dest |-> [found |-> TRUE, data |-> o.bytes]]

\* lines 138-140: open('wb') empties the file, and the write stops with an
\* OSError after k bytes (k >= 0) or goes through (k = -1)
WriteInline(b, contents, k) ==
  IF k >= 0
  THEN [res |-> [b EXCEPT !.err = "OSError"],
        dest |-> [found |-> TRUE, data |-> SubSeq(contents, 1, k)]]
  ELSE [res |-> b, dest |-> [found |-> TRUE, data |-> contents]]

DownloadResult(b, dst, k, r) ==
  IF r.err = "RBCFileException" THEN WriteInline(b, r.contents, k)
  ELSE IF r.err # "None" THEN [res |-> Raised(b, r), dest |-> dst]
  ELSE S3Download(b, dst, S3Object(r.s3path))

DownloadOf(path, dst, k, r) ==
  DownloadResult(Resolved("_download_file", path, r), dst, k, r)

\* _download_file to the local file that holds dst
DownloadFileCall(gp, path, dst, k) == DownloadOf(path, dst, k, ToS3(gp, path))

-----------------------------------------------------------------------------
(* The state machine *)

NoFile == [found |-> FALSE, data |-> <<>>]

\* A client built with or without github_path, path objects with _stat
\* None, and a download destination that does not exist yet.
Init ==
  /\ github_path \in {NoPath, MirrorRoot}
  /\ stat_cache = [p \in Paths |-> NoneStat]
  /\ now = 0
  /\ dest = NoFile
  /\ last = Blank("init", <<>>)

SplitRepo ==
  \E s \in ParseInputs :
    /\ last' = SplitRepoCall(s)
    /\ UNCHANGED <<github_path, stat_cache, now, dest>>

ToS3Op ==
  \E p \in Paths :
    /\ last' = ToS3Call(github_path, p)
    /\ UNCHANGED <<github_path, stat_cache, now, dest>>

Exists ==
  \E p \in Paths :
    /\ last' = ExistsCall(github_path, p)
    /\ UNCHANGED <<github_path, stat_cache, now, dest>>

PublicUrl ==
  \E p \in Paths :
    /\ last' = PublicUrlCall(github_path, p)
    /\ UNCHANGED <<github_path, stat_cache, now, dest>>

PresignedUrl ==
  \E p \in Paths :
    /\ last' = PresignedUrlCall(github_path, p)
    /\ UNCHANGED <<github_path, stat_cache, now, dest>>

Key ==
  \E p \in Paths :
    /\ last' = KeyCall(github_path, p)
    /\ UNCHANGED <<github_path, stat_cache, now, dest>>

PathKind ==
  \E p \in Paths :
    /\ last' = PathKindCall(github_path, p)
    /\ UNCHANGED <<github_path, stat_cache, now, dest>>

IsDir ==
  \E p \in Paths :
    /\ last' = IsDirCall(github_path, p)
    /\ UNCHANGED <<github_path, stat_cache, now, dest>>

IsFile ==
  \E p \in Paths :
    /\ last' = IsFileCall(github_path, p)
    /\ UNCHANGED <<github_path, stat_cache, now, dest>>

MoveFile ==
  \E p \in Paths :
    /\ last' = MoveFileCall(p)
    /\ UNCHANGED <<github_path, stat_cache, now, dest>>

Remove ==
  \E p \in Paths :
    /\ last' = RemoveCall(p)
    /\ UNCHANGED <<github_path, stat_cache, now, dest>>

UploadFile ==
  \E p \in Paths :
    /\ last' = UploadFileCall(p)
    /\ UNCHANGED <<github_path, stat_cache, now, dest>>

Mkdir ==
  \E p \in Paths :
    /\ last' = MkdirCall(p)
    /\ UNCHANGED <<github_path, stat_cache, now, dest>>

Touch ==
  \E p \in Paths :
    /\ last' = TouchCall(p)
    /\ UNCHANGED <<github_path, stat_cache, now, dest>>

ListDir ==
  \E p \in Paths, recursive \in BOOLEAN :
    /\ last' = ListDirCall(github_path, p, recursive)
    /\ UNCHANGED <<github_path, stat_cache, now, dest>>

Stat ==
  \E p \in Paths :
    LET c == StatCall(github_path, stat_cache, p, now)
    IN  /\ last' = c.res
        /\ stat_cache' = c.cache
        /\ UNCHANGED <<github_path, now, dest>>

DownloadFile ==
  \E p \in Paths :
    \E k \in (-1)..(Len(ToS3(github_path, p).contents) - 1) :
      LET c == DownloadFileCall(github_path, p, dest, k)
      IN  /\ last' = c.res
          /\ dest' = c.dest
          /\ UNCHANGED <<github_path, stat_cache, now>>

\* time passes
Tick ==
  /\ now < MaxTime
  /\ now' = now + 1
  /\ UNCHANGED <<github_path, stat_cache, dest, last>>

Next ==
  \/ SplitRepo \/ ToS3Op \/ Exists \/ PublicUrl \/ PresignedUrl \/ Key
  \/ PathKind \/ IsDir \/ IsFile \/ ListDir
  \/ MoveFile \/ Remove \/ UploadFile \/ Mkdir \/ Touch
  \/ Stat \/ DownloadFile \/ Tick

Spec == Init /\ [][Next]_vars

-----------------------------------------------------------------------------
(* The claims *)

ReadOps ==
  {"to_s3", "_exists", "stat", "_download_file", "_get_public_url",
   "_generate_presigned_url", "key"}
QueryOps == {"_path_kind", "_list_dir", "is_dir", "is_file"}
MutationOps == {"_move_file", "_remove", "_upload_file", "mkdir", "touch"}

\* the last call obtained indirection bytes, and they lack the marker
LiteralCase == last.got /\ ~Contains(last.dat, AnnexMarker)

\* C1: with or without a mirror, when the bytes obtained for a path hold
\* the marker, to_s3 returns <prefix>/<repository>/<last segment of the
\* bytes>; when they do not, it raises the RBCFileException that carries
\* the raw-content URL of the path and exactly the bytes obtained.
C1_ResolveByMarker ==
  (last.op = "to_s3" /\ last.got) =>
    IF Contains(last.dat, AnnexMarker)
    THEN /\ last.err = "None"
         /\ last.str = S3Prefix \o PathSplitRepo(last.path).repo \o <<"/">>
                         \o LastOf(Split(last.dat, "/"))
    ELSE /\ last.err = "RBCFileException"
         /\ last.str = GithubPath(last.path)
         /\ last.list = <<last.dat>>

\* C2: for a path whose bytes are literal content, with or without a
\* mirror, no read operation raises: exists is true, the URLs are the
\* raw-content URL, the key is None, and a download that the filesystem
\* lets through writes the bytes.
C2_LiteralNeverLeaks ==
  (last.op \in ReadOps /\ LiteralCase) =>
    /\ last.err \in (IF last.op = "_download_file"
                     THEN {"None", "OSError"} ELSE {"None"})
    /\ last.op = "_exists" => last.bool
    /\ last.op \in {"_get_public_url", "_generate_presigned_url"} =>
         last.str = GithubPath(last.path)
    /\ (last.op = "_download_file" /\ last.err = "None") =>
         dest = [found |-> TRUE, data |-> last.dat]

\* C3: every mutation fails, with one and the same kind of error whichever
\* mutation it is, before any request or filesystem call, and leaves the
\* stat cache and the download destination as they were.
C3_OneReadOnlyError ==
  [][ /\ last'.op \in MutationOps =>
           /\ last'.err # "None"
           /\ last'.net = <<>> /\ last'.fs = 0
           /\ UNCHANGED <<stat_cache, dest>>
      /\ (last.op \in MutationOps /\ last'.op \in MutationOps) =>
           last'.err = last.err ]_vars

\* C4: _path_kind answers "directory" exactly when the query gave a list
\* and "file" exactly when it gave an object.
C4_KindMatchesQuery ==
  (last.op = "_path_kind" /\ last.err = "None") =>
    /\ last.str = <<"directory">> <=> last.json = "list"
    /\ last.str = <<"file">> <=> last.json = "dict"

\* the virtual paths of the children of the directory at `path`, in the
\* order of the repository's tree
ChildrenOf(sp, node) ==
  [i \in 1..Len(node.children) |->
     rbc \o sp.repo \o <<"/">> \o sp.tail \o <<"/">> \o node.children[i]]

\* C5: listing the directory r/d without recursion gives rbc://r/d/a and
\* rbc://r/d/b in that order, with a mirror as without one, and with a
\* mirror no request is made.
C5_ListingOfChildren ==
  (last.op = "_list_dir" /\ ~last.recursive /\ last.path = pDir) =>
    /\ last.err = "None"
    /\ last.list = ChildrenOf(PathSplitRepo(pDir),
                              FsNode(LocPath(MirrorRoot, <<"r">>, <<"d">>)))
    /\ github_path # NoPath => last.net = <<>>

\* C6: a recursive listing fails with NotImplementedError for every path,
\* with or without a mirror, before any query, request or filesystem call;
\* a listing whose query gave something that is not a list fails with
\* TypeError.
C6_RecursiveUnsupported ==
  last.op = "_list_dir" =>
    /\ last.recursive =>
         /\ last.err = "NotImplementedError"
         /\ last.json = "none" /\ last.net = <<>> /\ last.fs = 0
    /\ (~last.recursive /\ last.json \notin {"none", "list"}) =>
         last.err = "TypeError"

C6_Witness ==
  /\ last.op = "_list_dir" /\ last.recursive /\ last.path = pDir
  /\ github_path = MirrorRoot
  /\ last.err = "NotImplementedError"

\* C7: a download that succeeds leaves the resolved content at the
\* destination, and a download that fails, at whatever point, leaves the
\* destination as it was.
C7_DownloadAtomic ==
  [][ last'.op = "_download_file" =>
        /\ (last'.err = "None" /\ last'.got /\ ~Contains(last'.dat, AnnexMarker))
             => dest' = [found |-> TRUE, data |-> last'.dat]
        /\ last'.err # "None" => dest' = dest ]_vars

\* C8: without a mirror, every request of _path_kind, _list_dir, is_dir
\* and is_file goes to the listing URL of the path, and every request of a
\* resolution goes to its raw-content URL.
C8_QueriesUseListingUrl ==
  github_path = NoPath =>
    /\ last.op \in QueryOps =>
         \A i \in DOMAIN last.net : last.net[i] = GithubApiPath(last.path)
    /\ last.op \in ReadOps =>
         \A i \in DOMAIN last.net : last.net[i] = GithubPath(last.path)

\* C9: self._stat of a path goes from None to a value at most once, by a
\* stat() that succeeds; it never goes back and never changes; every later
\* stat() returns that value with no request and no filesystem call; and a
\* stat() that fails leaves it None.
C9_StatCacheStep ==
  /\ \A p \in Paths :
       stat_cache[p] # NoneStat => stat_cache'[p] = stat_cache[p]
  /\ stat_cache' # stat_cache => (last'.op = "stat" /\ last'.err = "None")
  /\ (last'.op = "stat" /\ last' # last) =>
       /\ last'.err = "None" => last'.stat = stat_cache'[last'.path]
       /\ last'.err # "None" => stat_cache'[last'.path] = NoneStat
       /\ stat_cache[last'.path] # NoneStat =>
            /\ last'.err = "None"
            /\ last'.stat = stat_cache[last'.path]
            /\ last'.net = <<>> /\ last'.fs = 0

C9_StatCacheOnce == [][C9_StatCacheStep]_vars

\* a stat() answered from self._stat after the clock has moved on
C9_Witness ==
  /\ last.op = "stat" /\ last.cached /\ last.path = pLit
  /\ last.stat = stat_cache[pLit]
  /\ last.stat.st_mtime < now

\* the scheme prefixes, in three of their spellings
Schemes == {rbc, RBC, Rbc}

\* C10: _path_split_repo strips the scheme whatever its case and the
\* separators that follow, and gives the first segment of the rest as the
\* repository and the other segments, joined by "/", as the tail.
C10_SchemeAnyCase ==
  last.op = "_path_split_repo" =>
    \A sch \in Schemes :
      StartsWith(last.path, sch) =>
        LET parts == PurePosixParts(SubSeq(last.path, 7, Len(last.path)))
        IN  parts # <<>> =>
              /\ last.err = "None"
              /\ last.str = parts[1]
              /\ last.list = <<Join(Tail(parts), "/")>>

=============================================================================
